---------------------------- MODULE Spec2Model ----------------------------
(***************************************************************************)
(* A model of three pieces of the PLASMA sources:                          *)
(*                                                                         *)
(*   - plasma_pzpb2desc (compute/pzpb2desc.c): the band -> tile layout     *)
(*     converter, which walks the tile grid of a band descriptor and       *)
(*     submits one copy task per tile of the band;                         *)
(*   - CORE_ztslqt and CORE_OMP_ztslqt: the coupled-tile LQ kernel and     *)
(*     its OpenMP task wrapper;                                            *)
(*   - test_zstevx2 and testMatrix_Kahan: the eigen-solver test driver.    *)
(*                                                                         *)
(* Each piece has its own specification (SpecConv, SpecKernel, SpecSched,  *)
(* SpecTest); the variables of the other pieces stay at their idle value.  *)
(***************************************************************************)
EXTENDS Integers, Sequences, FiniteSets, TLC

VARIABLES
    \* ---- plasma_pzpb2desc
    desc,        \* plasma_desc_t A: uplo, m, n, mb, nb, kl, ku
    lda,         \* leading dimension of the band buffer pA
    seqStatus,   \* sequence->status
    seqEntry,    \* sequence->status as it was when plasma_pzpb2desc was called
    reqStatus,   \* request->status
    convPc,      \* "call" before plasma_pzpb2desc runs, "returned" after
    tasks,       \* the core_omp_zlacpy_lapack2tile_band submissions, in order
    \* ---- one CORE_OMP_ztslqt task body and the CORE_ztslqt call in it
    kargs,       \* m, n, ib, nb, lda1, lda2, ldt as passed by the caller
    kpc,         \* position in the task body / kernel
    ii,          \* outer loop counter of CORE_ztslqt
    i,           \* inner loop counter of CORE_ztslqt
    tauNull,     \* malloc of TAU returned NULL
    workNull,    \* malloc of WORK returned NULL
    invoked,     \* CORE_ztslqt has been called by the task body
    wild,        \* a write went through a NULL scratch pointer
    wA1,         \* offsets of A1 written so far
    wA2,         \* offsets of A2 written so far
    wT,          \* offsets of T written so far
    wTAU,        \* offsets of TAU written so far
    wWORK,       \* offsets of WORK written so far
    klog,        \* reflector / tau-store / trailing-update events, in order
    errors,      \* messages passed to plasma_error, in order
    \* ---- the tasks generated by calls of CORE_OMP_ztslqt
    snb,         \* the tile size nb the caller passes
    sib,         \* the inner blocking ib the caller passes
    subs,        \* the generated tasks, in submission order
    tstate,      \* per task: "waiting", "running" or "done"
    \* ---- test_zstevx2
    tm,          \* the matrix size m (n of testMatrix_Kahan)
    tpc,         \* position in the driver
    tk,          \* loop counter k of testMatrix_Kahan
    ti,          \* loop counter i of the shift loop
    evalue,      \* the analytic eigenvalues, indices 0..m-1
    evSet,       \* the indices of evalue assigned so far
    diag,        \* Diag
    offd,        \* Offd
    mult         \* i<<1, the multiplier of eps in the eigenvector threshold

convVars == <<desc, lda, seqStatus, seqEntry, reqStatus, convPc, tasks>>

kernVars == <<kargs, kpc, ii, i, tauNull, workNull, invoked, wild,
              wA1, wA2, wT, wTAU, wWORK, klog, errors>>

schedVars == <<snb, sib, subs, tstate>>

testVars == <<tm, tpc, tk, ti, evalue, evSet, diag, offd, mult>>

vars == <<convVars, kernVars, schedVars, testVars>>

---------------------------------------------------------------------------
(* Helpers of plasma_internal.h as the C code uses them. *)

imax(a, b) == IF a > b THEN a ELSE b

imin(a, b) == IF a < b THEN a ELSE b

\* C integer division truncates toward zero; every dividend below is >= 0
\* when the divisor is >= 1, but the operator keeps C's rule.
CDiv(a, b) == IF a >= 0 THEN a \div b ELSE -((-a) \div b)

---------------------------------------------------------------------------
(* Idle values: the state of a piece while another piece's specification
   runs. *)

IdleConv ==
    /\ desc = [uplo |-> "PlasmaGeneral", m |-> 1, n |-> 1, mb |-> 1,
               nb |-> 1, kl |-> 0, ku |-> 0]
    /\ lda = 1
    /\ seqStatus = "PlasmaSuccess"
    /\ seqEntry = "PlasmaSuccess"
    /\ reqStatus = "PlasmaSuccess"
    /\ convPc = "idle"
    /\ tasks = <<>>

IdleSched ==
    /\ snb = 0
    /\ sib = 0
    /\ subs = <<>>
    /\ tstate = <<>>

IdleTest ==
    /\ tm = 0
    /\ tpc = "idle"
    /\ tk = 0
    /\ ti = 0
    /\ evalue = <<>>
    /\ evSet = {}
    /\ diag = <<>>
    /\ offd = <<>>
    /\ mult = 0

IdleKern ==
    /\ kargs = [m |-> 0, n |-> 0, ib |-> 0, nb |-> 0,
                lda1 |-> 0, lda2 |-> 0, ldt |-> 0]
    /\ kpc = "idle"
    /\ ii = 0
    /\ i = 0
    /\ tauNull = FALSE
    /\ workNull = FALSE
    /\ invoked = FALSE
    /\ wild = FALSE
    /\ wA1 = {}
    /\ wA2 = {}
    /\ wT = {}
    /\ wTAU = {}
    /\ wWORK = {}
    /\ klog = <<>>
    /\ errors = <<>>

---------------------------------------------------------------------------
(* Bounds of the descriptor inputs. *)

MaxM == 4

MaxNB == 2

MaxK == 2

MaxLda == 3

Uplos == {"PlasmaGeneral", "PlasmaUpper", "PlasmaLower"}

Statuses == {"PlasmaSuccess", "PlasmaErrorSequence", "PlasmaErrorOutOfMemory"}

Descs == [uplo : Uplos, m : 1..MaxM, n : 1..MaxM, mb : 1..MaxNB,
          nb : 1..MaxNB, kl : 0..MaxK, ku : 0..MaxK]

\* Tile-grid dimensions of the descriptor (fields A.mt, A.nt).
MT(A) == (A.m + A.mb - 1) \div A.mb

NT(A) == (A.n + A.nb - 1) \div A.nb

---------------------------------------------------------------------------
(* plasma_pzpb2desc *)

\* bandA without the column stride of the band buffer.
bandA_NoStride(A, ld, m, n) ==
    A.nb * n + (IF A.uplo = "PlasmaUpper" THEN A.ku ELSE 0) + A.mb * (m - n)

\* bandA(m, n): the offset into pA of the band tile (m, n).
bandA(A, ld, m, n) ==
    ld * (A.nb * n) + (IF A.uplo = "PlasmaUpper" THEN A.ku ELSE 0)
        + A.mb * (m - n)

m_start(A, n) ==
    IF A.uplo = "PlasmaGeneral"
    THEN CDiv(imax(0, n * A.nb - A.ku - A.kl), A.nb)
    ELSE IF A.uplo = "PlasmaUpper"
    THEN CDiv(imax(0, n * A.nb - A.ku), A.nb)
    ELSE CDiv(imax(0, n * A.nb), A.nb)

\* m_end without the lower bandwidth in the general and lower shapes.
m_end_NoKl(A, n) == CDiv(imin(A.m - 1, (n + 1) * A.nb - 1), A.nb)

m_end(A, n) ==
    IF A.uplo = "PlasmaGeneral"
    THEN CDiv(imin(A.m - 1, (n + 1) * A.nb + A.kl - 1), A.nb)
    ELSE IF A.uplo = "PlasmaUpper"
    THEN CDiv(imin(A.m - 1, (n + 1) * A.nb - 1), A.nb)
    ELSE CDiv(imin(A.m - 1, (n + 1) * A.nb + A.kl - 1), A.nb)

\* The arguments of one core_omp_zlacpy_lapack2tile_band call.
CopyTask(A, ld, m, n) ==
    [m |-> m, n |-> n,
     mb |-> imin(A.mb, A.m - m * A.mb),
     nb |-> imin(A.nb, A.n - n * A.nb),
     src |-> bandA(A, ld, m, n),
     ldsrc |-> ld - 1]

\* The inner loop: for (m = m_start; m <= m_end; m++).
RECURSIVE RowTasks(_, _, _, _, _)
RowTasks(A, ld, n, m, mEnd) ==
    IF m > mEnd THEN <<>>
    ELSE <<CopyTask(A, ld, m, n)>> \o RowTasks(A, ld, n, m + 1, mEnd)

\* The outer loop: for (n = 0; n < A.nt; n++).
RECURSIVE ColumnTasks(_, _, _)
ColumnTasks(A, ld, n) ==
    IF n >= NT(A) THEN <<>>
    ELSE RowTasks(A, ld, n, m_start(A, n), m_end(A, n))
             \o ColumnTasks(A, ld, n + 1)

\* plasma_request_fail(sequence, request, status): the status cell is
\* written on the first failure only; the request records the failure.
plasma_request_fail(seq, req, status) ==
    [seq |-> IF seq = "PlasmaSuccess" THEN status ELSE seq,
     req |-> status]

\* A sequence check that never fires.
SequenceFailed_Never(seq) == FALSE

\* The sequence check at the top of plasma_pzpb2desc.
SequenceFailed(seq) == seq # "PlasmaSuccess"

plasma_pzpb2desc ==
    /\ convPc = "call"
    /\ convPc' = "returned"
    /\ IF SequenceFailed(seqStatus)
       THEN LET f == plasma_request_fail(seqStatus, reqStatus,
                                         "PlasmaErrorSequence")
            IN /\ seqStatus' = f.seq
               /\ reqStatus' = f.req
               /\ tasks' = <<>>
       ELSE /\ tasks' = ColumnTasks(desc, lda, 0)
            /\ UNCHANGED <<seqStatus, reqStatus>>
    /\ UNCHANGED <<desc, lda, seqEntry>>
    /\ UNCHANGED <<kernVars, schedVars, testVars>>

InitConv ==
    /\ desc \in Descs
    /\ lda \in 1..MaxLda
    /\ seqStatus \in Statuses
    /\ seqEntry = seqStatus
    /\ reqStatus = "PlasmaSuccess"
    /\ convPc = "call"
    /\ tasks = <<>>
    /\ IdleKern
    /\ IdleSched
    /\ IdleTest

NextConv == plasma_pzpb2desc

SpecConv == InitConv /\ [][NextConv]_vars

---------------------------------------------------------------------------
(* Properties of plasma_pzpb2desc. *)

Returned == convPc = "returned"

\* The tasks submitted for tile (m, n).
TasksFor(m, n) == {k \in DOMAIN tasks : tasks[k].m = m /\ tasks[k].n = n}

\* Element (er, ec) belongs to the stored band of shape uplo.
InBand(A, er, ec) ==
    IF A.uplo = "PlasmaGeneral"
    THEN ec - A.ku - A.kl <= er /\ er <= ec + A.kl
    ELSE IF A.uplo = "PlasmaUpper" THEN ec - A.ku <= er /\ er <= ec
    ELSE ec <= er /\ er <= ec + A.kl

\* Tile (m, n) holds at least one element of the stored band.
TileMeetsBand(A, m, n) ==
    \E er \in (m * A.mb)..(imin(A.m, (m + 1) * A.mb) - 1) :
        \E ec \in (n * A.nb)..(imin(A.n, (n + 1) * A.nb) - 1) :
            InBand(A, er, ec)

RowStart(A, n) ==
    IF A.uplo = "PlasmaGeneral" THEN imax(0, n * A.nb - A.ku - A.kl) \div A.nb
    ELSE IF A.uplo = "PlasmaUpper" THEN imax(0, n * A.nb - A.ku) \div A.nb
    ELSE n

RowEnd(A, n) ==
    IF A.uplo = "PlasmaUpper"
    THEN imin(A.m - 1, (n + 1) * A.nb - 1) \div A.nb
    ELSE imin(A.m - 1, (n + 1) * A.nb + A.kl - 1) \div A.nb

\* C5: with a successful sequence and square tiles (MB = NB), every tile
\* that holds an element of the stored band gets exactly one copy task, no
\* tile gets two, and the rows submitted for tile column n are exactly the
\* contiguous range RowStart(n)..RowEnd(n).
C5_OneTaskPerBandTile ==
    (Returned /\ seqEntry = "PlasmaSuccess" /\ desc.mb = desc.nb) =>
        /\ \A m \in 0..(MT(desc) - 1) : \A n \in 0..(NT(desc) - 1) :
               TileMeetsBand(desc, m, n) => Cardinality(TasksFor(m, n)) = 1
        /\ \A k1, k2 \in DOMAIN tasks :
               (tasks[k1].m = tasks[k2].m /\ tasks[k1].n = tasks[k2].n)
                   => k1 = k2
        /\ \A n \in 0..(NT(desc) - 1) :
               {tasks[k].m : k \in {q \in DOMAIN tasks : tasks[q].n = n}}
                   = RowStart(desc, n)..RowEnd(desc, n)
        /\ \A k \in DOMAIN tasks : tasks[k].n \in 0..(NT(desc) - 1)

C5_Witness ==
    /\ Returned
    /\ seqEntry = "PlasmaSuccess"
    /\ desc.mb = desc.nb
    /\ desc.uplo = "PlasmaLower"
    /\ desc.kl = 1
    /\ Len(tasks) >= 3
    /\ \E m \in 0..(MT(desc) - 1) : \E n \in 0..(NT(desc) - 1) :
           /\ m > n
           /\ TileMeetsBand(desc, m, n)
           /\ Cardinality(TasksFor(m, n)) = 1
    /\ \E m \in 0..(MT(desc) - 1) : \E n \in 0..(NT(desc) - 1) :
           ~TileMeetsBand(desc, m, n) /\ TasksFor(m, n) = {}

\* The valid tile indices of the descriptor.
ValidPairs(A) == (0..(MT(A) - 1)) \X (0..(NT(A) - 1))

\* C6 as stated: over all valid (m, n) the band offset is non-negative and
\* no two distinct valid pairs have the same offset.
C6_AllValidPairs ==
    Returned =>
        /\ \A p \in ValidPairs(desc) : bandA(desc, lda, p[1], p[2]) >= 0
        /\ \A p, q \in ValidPairs(desc) :
               bandA(desc, lda, p[1], p[2]) = bandA(desc, lda, q[1], q[2])
                   => p = q

\* The number of rows of band storage the shape needs in each column.
BandRows(A) ==
    IF A.uplo = "PlasmaGeneral" THEN 2 * A.kl + A.ku + 1
    ELSE IF A.uplo = "PlasmaUpper" THEN A.ku + 1
    ELSE A.kl + 1

\* C6 (amended): with square tiles and a band buffer of at least BandRows
\* rows per column, the offsets bandA yields for the tiles that
\* plasma_pzpb2desc submits are non-negative and pairwise distinct.
C6_SubmittedOffsetsDistinct ==
    (Returned /\ desc.mb = desc.nb /\ lda >= BandRows(desc)) =>
        /\ \A k \in DOMAIN tasks : tasks[k].src >= 0
        /\ \A k1, k2 \in DOMAIN tasks :
               tasks[k1].src = tasks[k2].src => k1 = k2

C6_Witness ==
    /\ Returned
    /\ desc.mb = desc.nb
    /\ lda >= BandRows(desc)
    /\ Len(tasks) >= 4
    /\ \E k \in DOMAIN tasks : tasks[k].m < tasks[k].n
    /\ \E k \in DOMAIN tasks : tasks[k].m > tasks[k].n
    /\ \E p, q \in ValidPairs(desc) :
           p # q /\ bandA(desc, lda, p[1], p[2]) = bandA(desc, lda, q[1], q[2])

\* C12: for every descriptor (MB and NB not assumed equal) and every
\* shape, each submitted copy task is for a valid tile index, 0 <= m < MT
\* and 0 <= n < NT, and carries that tile's clipped extent,
\* mb = min(MB, M - m*MB) with 1 <= mb <= MB and nb = min(NB, N - n*NB)
\* with 1 <= nb <= NB.
C12_ValidClippedTasks ==
    Returned =>
        \A k \in DOMAIN tasks :
            /\ tasks[k].m \in 0..(MT(desc) - 1)
            /\ tasks[k].n \in 0..(NT(desc) - 1)
            /\ tasks[k].mb = imin(desc.mb, desc.m - tasks[k].m * desc.mb)
            /\ tasks[k].nb = imin(desc.nb, desc.n - tasks[k].n * desc.nb)
            /\ tasks[k].mb \in 1..desc.mb
            /\ tasks[k].nb \in 1..desc.nb

---------------------------------------------------------------------------
(* CORE_ztslqt and the task body of CORE_OMP_ztslqt *)

MaxDim == 3

MaxIb == 2

MaxLd == 3

KArgs == [m : (-1)..MaxDim, n : (-1)..MaxDim, ib : (-1)..MaxIb,
          nb : 1..MaxDim, lda1 : 0..MaxLd, lda2 : 0..MaxLd, ldt : 0..MaxLd]

\* "Check input arguments": the message of the first check that fails.
ArgError(a) ==
    IF a.m < 0 THEN "Illegal value of m"
    ELSE IF a.n < 0 THEN "Illegal value of n"
    ELSE IF a.ib < 0 THEN "Illegal value of ib"
    ELSE IF (a.lda2 < imax(1, a.m)) /\ (a.m > 0) THEN "Illegal value of lda2"
    ELSE "none"

\* A quick return that forgets n == 0.
QuickReturn_NoN(a) == (a.m = 0) \/ (a.ib = 0)

\* "Quick return".
QuickReturn(a) == (a.m = 0) \/ (a.n = 0) \/ (a.ib = 0)

\* sb = imin(m-ii, ib)
\* A block size that is not clipped at the last block.
sb_Unclipped == kargs.ib

sb == imin(kargs.m - ii, kargs.ib)

\* The elements x[0], x[inc], ..., x[(cnt-1)*inc] of a strided vector.
Strided(base, cnt, inc) == {base + inc * c : c \in 0..(cnt - 1)}

\* The elements of a column-major rows x cols block with leading dimension ld.
Block(base, rows, cols, ld) ==
    {base + r + ld * c : r \in 0..(rows - 1), c \in 0..(cols - 1)}

\* What one pass of the inner loop body writes, for row ii+i.
ReflectA2(a, r, k) ==
    Strided(r, a.n, a.lda2)                       \* zlacgv, zlarfg x
        \cup (IF r + 1 < a.m
              THEN Block(r + 1, k, a.n, a.lda2)   \* zgerc
              ELSE {})

ReflectA1(a, r, k) ==
    {a.lda1 * r + r}                              \* zlacgv, zlarfg alpha
        \cup (IF r + 1 < a.m
              THEN Strided(a.lda1 * r + r + 1, k, 1)   \* zaxpy
              ELSE {})

\* The column of T of row r taken one column too far.
ReflectT_NextColumn(a, r, j) ==
    Strided(a.ldt * (r + 1), j, 1) \cup {a.ldt * (r + 1) + j}

ReflectT(a, r, j) ==
    Strided(a.ldt * r, j, 1)                      \* zgemv y, ztrmv x
        \cup {a.ldt * r + j}                      \* T[ldt*(ii+i)+i] = TAU

ReflectWORK(a, r, k) ==
    IF r + 1 < a.m THEN Strided(0, k, 1) ELSE {}  \* zcopy, zgemv y

\* What the CORE_ztsmlq call after block ii writes (side Right):
\* the m1 x n1 block of A1, the m2 x n2 block of A2, and m1 x ib of WORK
\* with leading dimension ldwork = lda1.
TsmlqA1(a, b, s) ==
    Block(a.lda1 * b + b + s, a.m - (b + s), s, a.lda1)

TsmlqA2(a, b, s) == Block(b + s, a.m - (b + s), a.n, a.lda2)

TsmlqWORK(a, b, s) == Block(0, a.m - (b + s), a.ib, a.lda1)

\* The task body up to the kernel call: both scratch buffers are
\* malloc'ed; a NULL result is reported and the body goes on.
TaskAlloc ==
    /\ kpc = "task"
    /\ \E tn \in BOOLEAN, wn \in BOOLEAN :
           /\ tauNull' = tn
           /\ workNull' = wn
           /\ errors' = errors
                  \o (IF tn THEN <<"malloc() failed">> ELSE <<>>)
                  \o (IF wn THEN <<"malloc() failed">> ELSE <<>>)
    /\ kpc' = "entry"
    /\ UNCHANGED <<kargs, ii, i, invoked, wild, wA1, wA2, wT, wTAU, wWORK,
                   klog>>
    /\ UNCHANGED <<convVars, schedVars, testVars>>

\* CORE_ztslqt is called: argument checks, quick return, ii = 0.
KernelEntry ==
    /\ kpc = "entry"
    /\ invoked' = TRUE
    /\ IF ArgError(kargs) # "none"
       THEN /\ errors' = Append(errors, ArgError(kargs))
            /\ kpc' = "returned"
            /\ UNCHANGED ii
       ELSE IF QuickReturn(kargs)
       THEN /\ kpc' = "returned"
            /\ UNCHANGED <<errors, ii>>
       ELSE /\ ii' = 0
            /\ kpc' = "block"
            /\ UNCHANGED errors
    /\ UNCHANGED <<kargs, i, tauNull, workNull, wild, wA1, wA2, wT, wTAU,
                   wWORK, klog>>
    /\ UNCHANGED <<convVars, schedVars, testVars>>

\* The test of the outer loop and the entry of the inner loop.
BlockHead ==
    /\ kpc = "block"
    /\ IF ii < kargs.m
       THEN /\ i' = 0
            /\ kpc' = IF 0 < sb THEN "reflect" ELSE "update"
       ELSE /\ kpc' = "returned"
            /\ UNCHANGED i
    /\ UNCHANGED <<kargs, ii, tauNull, workNull, invoked, wild, wA1, wA2,
                   wT, wTAU, wWORK, klog, errors>>
    /\ UNCHANGED <<convVars, schedVars, testVars>>

\* One pass of the inner loop body: reflector ii+i, its application to
\* the rest of the block, its column of T.  A NULL scratch pointer that
\* the pass dereferences is undefined behaviour: the process dies at the
\* dereference, or the write lands elsewhere and the pass goes on.
Reflector ==
    /\ kpc = "reflect"
    /\ LET r == ii + i
           k == sb - i - 1
           nullHit == tauNull \/ (workNull /\ r + 1 < kargs.m /\ k > 0)
       IN \/ /\ wA1' = wA1 \cup ReflectA1(kargs, r, k)
             /\ wA2' = wA2 \cup ReflectA2(kargs, r, k)
             /\ wT' = wT \cup ReflectT(kargs, r, i)
             /\ wTAU' = IF tauNull THEN wTAU ELSE wTAU \cup {r}
             /\ wWORK' = IF workNull THEN wWORK
                         ELSE wWORK \cup ReflectWORK(kargs, r, k)
             /\ wild' = (wild \/ nullHit)
             /\ klog' = Append(klog, [op |-> "reflector", row |-> r,
                                      at |-> kargs.ldt * r + i])
             /\ i' = i + 1
             /\ kpc' = IF i + 1 < sb THEN "reflect" ELSE "update"
          \/ /\ nullHit
             /\ wA1' = wA1 \cup {kargs.lda1 * r + r}
             /\ wA2' = wA2 \cup Strided(r, kargs.n, kargs.lda2)
             /\ kpc' = "crashed"
             /\ UNCHANGED <<wT, wTAU, wWORK, wild, klog, i>>
    /\ UNCHANGED <<kargs, ii, tauNull, workNull, invoked, errors>>
    /\ UNCHANGED <<convVars, schedVars, testVars>>

\* After the inner loop: CORE_ztsmlq on the rows below the block, if any,
\* then ii += ib.
TrailingUpdate ==
    /\ kpc = "update"
    /\ IF kargs.m > ii + sb
       THEN \/ /\ wA1' = wA1 \cup TsmlqA1(kargs, ii, sb)
               /\ wA2' = wA2 \cup TsmlqA2(kargs, ii, sb)
               /\ wWORK' = IF workNull THEN wWORK
                           ELSE wWORK \cup TsmlqWORK(kargs, ii, sb)
               /\ wild' = (wild \/ workNull)
               /\ klog' = Append(klog, [op |-> "ztsmlq", row |-> ii + sb,
                                        at |-> kargs.ldt * ii])
               /\ ii' = ii + kargs.ib
               /\ kpc' = "block"
            \/ /\ workNull
               /\ kpc' = "crashed"
               /\ UNCHANGED <<wA1, wA2, wWORK, wild, klog, ii>>
       ELSE /\ ii' = ii + kargs.ib
            /\ kpc' = "block"
            /\ UNCHANGED <<wA1, wA2, wWORK, wild, klog>>
    /\ UNCHANGED <<kargs, i, tauNull, workNull, invoked, wT, wTAU, errors>>
    /\ UNCHANGED <<convVars, schedVars, testVars>>

\* The kernel has returned: free(TAU); free(WORK); the task ends.
TaskFree ==
    /\ kpc = "returned"
    /\ kpc' = "done"
    /\ UNCHANGED <<kargs, ii, i, tauNull, workNull, invoked, wild, wA1, wA2,
                   wT, wTAU, wWORK, klog, errors>>
    /\ UNCHANGED <<convVars, schedVars, testVars>>

InitKernel ==
    /\ IdleConv
    /\ IdleSched
    /\ IdleTest
    /\ kargs \in KArgs
    /\ kpc = "task"
    /\ ii = 0
    /\ i = 0
    /\ tauNull = FALSE
    /\ workNull = FALSE
    /\ invoked = FALSE
    /\ wild = FALSE
    /\ wA1 = {}
    /\ wA2 = {}
    /\ wT = {}
    /\ wTAU = {}
    /\ wWORK = {}
    /\ klog = <<>>
    /\ errors = <<>>

NextKernel ==
    \/ TaskAlloc
    \/ KernelEntry
    \/ BlockHead
    \/ Reflector
    \/ TrailingUpdate
    \/ TaskFree

SpecKernel == InitKernel /\ [][NextKernel]_vars

\* The task body is straight-line sequential code on one thread: once
\* started, each of its steps is eventually taken.
SpecKernelLive == SpecKernel /\ WF_vars(NextKernel)

---------------------------------------------------------------------------
(* Properties of CORE_ztslqt and of the task body. *)

\* plasma_error was called with an argument complaint.
IllegalReported == \E q \in DOMAIN errors : errors[q] # "malloc() failed"

MallocReported == \E q \in DOMAIN errors : errors[q] = "malloc() failed"

NothingWritten ==
    wA1 = {} /\ wA2 = {} /\ wT = {} /\ wTAU = {} /\ wWORK = {} /\ ~wild

\* The arguments the documentation of CORE_ztslqt calls illegal: a
\* negative m, n or ib, or a stride below max(1, m).
InvalidArgs(a) ==
    \/ a.m < 0
    \/ a.n < 0
    \/ a.ib < 0
    \/ a.lda1 < imax(1, a.m)
    \/ a.lda2 < imax(1, a.m)
    \/ a.ldt < imax(1, a.m)

\* C3: every call with m < 0, n < 0, ib < 0 or a stride (lda1, lda2, ldt)
\* below max(1, m) is reported as an illegal argument and returns before
\* any write to A1, A2, T, TAU or WORK.
C3_RejectsInvalidArgs ==
    (invoked /\ ~tauNull /\ ~workNull /\ InvalidArgs(kargs))
        => (IllegalReported /\ NothingWritten /\ klog = <<>>)

\* C4: a call with m = 0, n = 0 or ib = 0 and otherwise valid arguments
\* (m, n, ib >= 0, lda2 >= max(1, m)) reports no error and returns at once:
\* nothing of A1, A2, T or the scratch buffers is written and no reflector,
\* BLAS or trailing-update step runs.
C4_NoOp ==
    (/\ invoked
     /\ kargs.m >= 0 /\ kargs.n >= 0 /\ kargs.ib >= 0
     /\ kargs.lda2 >= imax(1, kargs.m)
     /\ (kargs.m = 0 \/ kargs.n = 0 \/ kargs.ib = 0))
        => (/\ kpc \in {"returned", "done"}
            /\ ~IllegalReported
            /\ NothingWritten
            /\ klog = <<>>)

C4_Witness ==
    /\ kpc = "done"
    /\ invoked
    /\ kargs.m = 2 /\ kargs.n = 0 /\ kargs.ib = 1
    /\ kargs.lda2 = 2
    /\ errors = <<>>
    /\ NothingWritten
    /\ klog = <<>>

\* C7: when the allocation of TAU or WORK fails in the task body, the
\* failure is reported and the task is aborted: CORE_ztslqt is not called
\* and A1, A2 and T stay as they were.
C7_AllocFailureAborts ==
    ((tauNull \/ workNull) /\ kpc \notin {"idle", "task"})
        => (MallocReported /\ ~invoked /\ wA1 = {} /\ wA2 = {} /\ wT = {})

\* The reflector events and the trailing-update events of the log.
Reflectors == SelectSeq(klog, LAMBDA e : e.op = "reflector")

UpdatesAt(row) == {q \in DOMAIN klog : klog[q].op = "ztsmlq"
                                        /\ klog[q].row = row}

\* The first rows of the blocks of ib rows that cover 0..m-1.
BlockStarts == {b \in 0..(kargs.m - 1) : b % kargs.ib = 0}

\* Rows 0..m-1 each have one reflector, in ascending order, with tau of
\* row r stored at T[ldt*r + (r - block start)]; each block with rows
\* below it has one trailing update, placed right after the block's last
\* reflector and right before the next block's first one; no other
\* trailing update happens.
RowsPartitioned ==
    /\ Len(Reflectors) = kargs.m
    /\ \A q \in 1..Len(Reflectors) :
           /\ Reflectors[q].row = q - 1
           /\ Reflectors[q].at = kargs.ldt * (q - 1) + ((q - 1) % kargs.ib)
    /\ \A b \in BlockStarts :
           LET s == imin(kargs.m - b, kargs.ib)
           IN Cardinality(UpdatesAt(b + s))
                  = (IF kargs.m > b + s THEN 1 ELSE 0)
    /\ \A q \in DOMAIN klog :
           klog[q].op = "ztsmlq" =>
               /\ klog[q].row % kargs.ib = 0
               /\ klog[q].row \in 1..(kargs.m - 1)
               /\ q > 1
               /\ klog[q - 1].op = "reflector"
               /\ klog[q - 1].row = klog[q].row - 1
               /\ q < Len(klog)
               /\ klog[q + 1].op = "reflector"
               /\ klog[q + 1].row = klog[q].row

\* CORE_ztslqt is entered with usable TAU and WORK buffers.
KernelCalled == kpc = "entry" /\ ~tauNull /\ ~workNull

\* C13 as stated: for m, n >= 1 and ib >= 1 the call terminates with the
\* rows 0..m-1 partitioned into blocks, one reflector per row in ascending
\* order and one trailing update after each block that has rows below it.
C13_BlocksPartitionRows ==
    (KernelCalled /\ kargs.m >= 1 /\ kargs.n >= 1 /\ kargs.ib >= 1)
        ~> (kpc = "done" /\ RowsPartitioned)

\* C13 (amended): the same for the calls the argument checks let through,
\* m, n >= 1, ib >= 1 and lda2 >= m.
C13_AcceptedCallPartitionsRows ==
    (KernelCalled /\ kargs.m >= 1 /\ kargs.n >= 1 /\ kargs.ib >= 1
         /\ kargs.lda2 >= kargs.m)
        ~> (kpc = "done" /\ RowsPartitioned)

\* Three rows in blocks of two have been factorized: two reflectors, the
\* trailing update on row 2, then the reflector of row 2.
C13_Witness ==
    /\ kpc = "done"
    /\ ~tauNull /\ ~workNull
    /\ kargs.m = 3 /\ kargs.n >= 1 /\ kargs.ib = 2
    /\ kargs.lda2 >= kargs.m
    /\ Len(klog) = 4
    /\ klog[3].op = "ztsmlq"
    /\ klog[4] = [op |-> "reflector", row |-> 2, at |-> kargs.ldt * 2]
    /\ RowsPartitioned

\* The footprint the task declares: A1[0:nb*nb], A2[0:nb*nb], T[0:ib*nb].
InsideFootprint ==
    /\ wA1 \subseteq 0..(kargs.nb * kargs.nb - 1)
    /\ wA2 \subseteq 0..(kargs.nb * kargs.nb - 1)
    /\ wT \subseteq 0..(kargs.ib * kargs.nb - 1)

\* C11 as stated: for every argument combination the kernel accepts
\* (m, n >= 0, ib >= 1, lda2 >= max(1, m), any lda1 and ldt) every element
\* of A1, A2 and T the task body writes lies inside the declared footprint.
C11_WritesInsideFootprint ==
    (/\ kargs.m >= 0 /\ kargs.n >= 0 /\ kargs.ib >= 1
     /\ kargs.lda2 >= imax(1, kargs.m))
        => InsideFootprint

\* C11 (amended): when the tile fits the declared extents (m <= nb,
\* n <= nb, lda1 <= nb, lda2 <= nb, ldt <= ib), every element of A1, A2
\* and T the task body writes lies inside the declared footprint.
C11_FullTileInsideFootprint ==
    (/\ kargs.m >= 0 /\ kargs.n >= 0 /\ kargs.ib >= 1
     /\ kargs.lda2 >= imax(1, kargs.m)
     /\ kargs.m <= kargs.nb /\ kargs.n <= kargs.nb
     /\ kargs.lda1 <= kargs.nb /\ kargs.lda2 <= kargs.nb
     /\ kargs.ldt <= kargs.ib)
        => InsideFootprint

\* A full 2 x 2 tile pair with ib = 1 has been factorized: both blocks
\* and the trailing update ran and the last cell of each footprint is
\* written.
C11_Witness ==
    /\ kpc = "done"
    /\ ~tauNull /\ ~workNull
    /\ kargs.m = 2 /\ kargs.n = 2 /\ kargs.nb = 2 /\ kargs.ib = 1
    /\ kargs.lda1 = 2 /\ kargs.lda2 = 2 /\ kargs.ldt = 1
    /\ \E q \in DOMAIN klog : klog[q].op = "ztsmlq"
    /\ 3 \in wA1
    /\ 3 \in wA2
    /\ 1 \in wT

---------------------------------------------------------------------------
(* CORE_OMP_ztslqt as a task generator: the depend clauses and the
   OpenMP rule that orders sibling tasks. *)

MaxTasks == 2

MaxAddr == 1

MaxNbS == 2

\* The list items of the three depend clauses.  A1 and A2 point into the
\* tile buffer "A", T into the buffer "T" of the block reflectors.
DependItems_NoA2(tsk) ==
    {[buf |-> "A", base |-> tsk.a1, len |-> tsk.nb * tsk.nb, mode |-> "inout"],
     [buf |-> "T", base |-> tsk.t, len |-> tsk.ib * tsk.nb, mode |-> "out"]}

DependItems(tsk) ==
    {[buf |-> "A", base |-> tsk.a1, len |-> tsk.nb * tsk.nb, mode |-> "inout"],
     [buf |-> "A", base |-> tsk.a2, len |-> tsk.nb * tsk.nb, mode |-> "inout"],
     [buf |-> "T", base |-> tsk.t, len |-> tsk.ib * tsk.nb, mode |-> "out"]}

\* Two list items are the same list item: the same array section.  OpenMP
\* wants the items of sibling tasks identical or disjoint and orders
\* nothing by a partial overlap.
SameItem(x, y) == x.buf = y.buf /\ x.base = y.base /\ x.len = y.len

\* The task tsk depends on the earlier sibling task prev.
DependsOn(tsk, prev) ==
    \E x \in DependItems(tsk) : \E y \in DependItems(prev) :
        SameItem(x, y) /\ (x.mode # "in" \/ y.mode # "in")

\* A call of CORE_OMP_ztslqt: the task is generated and deferred.
Submit ==
    /\ Len(subs) < MaxTasks
    /\ \E p1 \in 0..MaxAddr, p2 \in 0..MaxAddr, pt \in 0..MaxAddr :
           subs' = Append(subs, [a1 |-> p1, a2 |-> p2, t |-> pt,
                                 nb |-> snb, ib |-> sib])
    /\ tstate' = Append(tstate, "waiting")
    /\ UNCHANGED <<snb, sib>>
    /\ UNCHANGED <<convVars, kernVars, testVars>>

\* The runtime starts a task once every earlier sibling it depends on has
\* completed.
StartTask(k) ==
    /\ tstate[k] = "waiting"
    /\ \A j \in 1..(k - 1) :
           DependsOn(subs[k], subs[j]) => tstate[j] = "done"
    /\ tstate' = [tstate EXCEPT ![k] = "running"]
    /\ UNCHANGED <<subs, snb, sib>>
    /\ UNCHANGED <<convVars, kernVars, testVars>>

\* The task body runs to its end.
FinishTask(k) ==
    /\ tstate[k] = "running"
    /\ tstate' = [tstate EXCEPT ![k] = "done"]
    /\ UNCHANGED <<subs, snb, sib>>
    /\ UNCHANGED <<convVars, kernVars, testVars>>

InitSched ==
    /\ IdleConv
    /\ IdleKern
    /\ IdleTest
    /\ snb \in 1..MaxNbS
    /\ sib \in 1..snb
    /\ subs = <<>>
    /\ tstate = <<>>

NextSched ==
    \/ Submit
    \/ \E k \in DOMAIN subs : StartTask(k)
    \/ \E k \in DOMAIN subs : FinishTask(k)

SpecSched == InitSched /\ [][NextSched]_vars

---------------------------------------------------------------------------
(* Properties of the task wrapper. *)

\* The cells of the declared footprint of a task.
Footprint(tsk) ==
    {<<"A", c>> : c \in tsk.a1..(tsk.a1 + tsk.nb * tsk.nb - 1)}
        \cup {<<"A", c>> : c \in tsk.a2..(tsk.a2 + tsk.nb * tsk.nb - 1)}
        \cup {<<"T", c>> : c \in tsk.t..(tsk.t + tsk.ib * tsk.nb - 1)}

\* The footprints of two tasks overlap (every access is a write).
Overlap(tj, tsk) == Footprint(tj) \cap Footprint(tsk) # {}

\* Two tasks name one and the same tile, or the same T section.
SharesSection(tj, tsk) ==
    \/ {<<tj.a1, tj.nb * tj.nb>>, <<tj.a2, tj.nb * tj.nb>>}
           \cap {<<tsk.a1, tsk.nb * tsk.nb>>, <<tsk.a2, tsk.nb * tsk.nb>>} # {}
    \/ <<tj.t, tj.ib * tj.nb>> = <<tsk.t, tsk.ib * tsk.nb>>

\* The earlier task j has completed before the later task k starts.
InOrder(j, k) == tstate[k] # "waiting" => tstate[j] = "done"

\* C2 as stated: two tasks whose declared footprints overlap never run
\* at the same time and run in submission order.
C2_OverlapSerialized ==
    \A j, k \in DOMAIN subs :
        (j < k /\ Overlap(subs[j], subs[k])) => InOrder(j, k)

\* C2 (amended): two tasks that declare one and the same section (the
\* same A1/A2 tile or the same T section, base and extent) never run at
\* the same time, and the later one starts only after the earlier one
\* has completed.
C2_SameSectionSerialized ==
    \A j, k \in DOMAIN subs :
        (j < k /\ SharesSection(subs[j], subs[k])) => InOrder(j, k)

\* An earlier task has completed and a later one that shares only its A2
\* tile with it is running.
C2_Witness ==
    \E j, k \in DOMAIN subs :
        /\ j < k
        /\ subs[j].a2 = subs[k].a2
        /\ subs[j].a1 # subs[k].a1
        /\ subs[j].t # subs[k].t
        /\ subs[j].a1 # subs[k].a2
        /\ tstate[j] = "done"
        /\ tstate[k] = "running"

\* Tasks with disjoint footprints do run at the same time, and out of
\* submission order.
DisjointConcurrent ==
    \E j, k \in DOMAIN subs :
        /\ j < k
        /\ ~Overlap(subs[j], subs[k])
        /\ tstate[j] = "running"
        /\ tstate[k] = "running"

DisjointReordered ==
    \E j, k \in DOMAIN subs :
        /\ j < k
        /\ ~Overlap(subs[j], subs[k])
        /\ tstate[j] = "waiting"
        /\ tstate[k] = "done"

---------------------------------------------------------------------------
(* test_zstevx2: the Kahan test matrix and the eigenvector threshold. *)

MaxN == 5

\* An analytic eigenvalue is kept as its sign and the index k of the
\* closed form (x^2 + 4 cos^2(pi k / (n+1)))^(1/2), which is positive for
\* every k in 1..n/2.
Ev(k) == [sgn |-> 1, k |-> k]

Neg(v) == [sgn |-> 0 - v.sgn, k |-> v.k]

Zero == [sgn |-> 0, k |-> 0]

\* What a malloc'ed cell may hold before it is assigned: zero or not.
Indeterminate == {Zero, [sgn |-> 1, k |-> 0], [sgn |-> -1, k |-> 0]}

\* m >> s and m << s for a non-negative int below 2^31.
RECURSIVE Pow2(_)
Pow2(s) == IF s = 0 THEN 1 ELSE 2 * Pow2(s - 1)

Shr(v, s) == v \div Pow2(s)

Shl(v, s) == v * Pow2(s)

\* The first loop of testMatrix_Kahan, one pass: evalue[k-1] = -ev and
\* evalue[n+1-k-1] = ev.
KahanStep ==
    /\ tpc = "kahan"
    /\ tk <= tm \div 2
    /\ evalue' = [evalue EXCEPT ![tk - 1] = Neg(Ev(tk)),
                                ![tm + 1 - tk - 1] = Ev(tk)]
    /\ evSet' = evSet \cup {tk - 1, tm + 1 - tk - 1}
    /\ tk' = tk + 1
    /\ UNCHANGED <<tm, tpc, ti, diag, offd, mult>>
    /\ UNCHANGED <<convVars, kernVars, schedVars>>

\* The rest of testMatrix_Kahan: diag alternates +x, -x and offd is 1.
KahanFill ==
    /\ tpc = "kahan"
    /\ tk > tm \div 2
    /\ diag' = [q \in 0..(tm - 1) |-> IF q % 2 = 1 THEN "-x" ELSE "+x"]
    /\ offd' = [q \in 0..(tm - 2) |-> 1]
    /\ tpc' = "shift"
    /\ ti' = 1
    /\ UNCHANGED <<tm, tk, evalue, evSet, mult>>
    /\ UNCHANGED <<convVars, kernVars, schedVars>>

\* while ((m>>i)) i++;
ShiftStep ==
    /\ tpc = "shift"
    /\ Shr(tm, ti) # 0
    /\ ti' = ti + 1
    /\ UNCHANGED <<tm, tpc, tk, evalue, evSet, diag, offd, mult>>
    /\ UNCHANGED <<convVars, kernVars, schedVars>>

\* The loop has ended: the threshold is (i<<1)*eps.
ShiftDone ==
    /\ tpc = "shift"
    /\ Shr(tm, ti) = 0
    /\ mult' = Shl(ti, 1)
    /\ tpc' = "done"
    /\ UNCHANGED <<tm, ti, tk, evalue, evSet, diag, offd>>
    /\ UNCHANGED <<convVars, kernVars, schedVars>>

InitTest ==
    /\ IdleConv
    /\ IdleKern
    /\ IdleSched
    /\ tm \in 1..MaxN
    /\ tpc = "kahan"
    /\ tk = 1
    /\ ti = 0
    /\ evalue \in [0..(tm - 1) -> Indeterminate]
    /\ evSet = {}
    /\ diag = <<>>
    /\ offd = <<>>
    /\ mult = 0

NextTest ==
    \/ KahanStep
    \/ KahanFill
    \/ ShiftStep
    \/ ShiftDone

SpecTest == InitTest /\ [][NextTest]_vars

---------------------------------------------------------------------------
(* Properties of the test driver. *)

\* ceil(log2(v)) for v >= 1: the least c with 2^c >= v.
RECURSIVE CeilLog2From(_, _)
CeilLog2From(v, c) == IF Pow2(c) >= v THEN c ELSE CeilLog2From(v, c + 1)

CeilLog2(v) == CeilLog2From(v, 0)

\* C9: the multiplier of machine epsilon in the eigenvector threshold is
\* 2*ceil(log2(m)) for every m >= 1.
C9_ThresholdIsCeilLog2 ==
    tpc = "done" => mult = 2 * CeilLog2(tm)

\* C10: on return of testMatrix_Kahan all n entries of evalue have been
\* assigned, evalue[n-1-j] = -evalue[j] for every j in 0..n-1, and for
\* odd n the middle entry is 0.
C10_KahanSymmetric ==
    tpc \in {"shift", "done"} =>
        /\ evSet = 0..(tm - 1)
        /\ \A j \in 0..(tm - 1) : evalue[tm - 1 - j] = Neg(evalue[j])
        /\ (tm % 2 = 1) => evalue[(tm - 1) \div 2] = Zero

=============================================================================
